---------------------------- MODULE Spec2Model ----------------------------
(***************************************************************************)
(* The observation query engine of the RegionIQ data API                   *)
(* (services/data-api/app/routes/observations.py): the dimensional query   *)
(* grammar, the cost gate, the level / region-batch / metric-batch / page  *)
(* fetch loops with the global record cap, and the response metadata       *)
(* (truncated, next_cursor), together with a caller that follows           *)
(* next_cursor.                                                            *)
(*                                                                         *)
(* Strings the code inspects character by character (region codes: prefix  *)
(* and length; time periods: isdigit / int) are tuples of one-character    *)
(* strings, so startswith, len, isdigit and int are computed.  Strings the *)
(* code only compares for equality (dimension codes, filters, scenarios,   *)
(* measures, data types) are TLA+ strings.                                 *)
(***************************************************************************)
EXTENDS Integers, Sequences, FiniteSets, TLC

(***************************************************************************)
(* Bounds of the model.  The three batch sizes and the return cap stand    *)
(* for the program's 100, 50, 10_000 and 250_000 (observations.py:199,     *)
(* 200, 216/261 and 186), scaled so that several region batches, metric    *)
(* batches and pages occur within a store of a few dozen rows.             *)
(***************************************************************************)
RegionBatch == 2
MetricBatch == 2
PageSize == 3
ReturnCap == 4
MaxLimit == 5
MaxCalls == 3

(***************************************************************************)
(* Program constants of the cost gate (kept at their real values).         *)
(***************************************************************************)
MaxCost == 250000
AllMetrics == 5000
AllRegions == 50000
AllYears == 200
DefaultYearFrom == 1991
DefaultYearTo == 2050

\* Optional[int] = None for cursor / next_cursor
None == -1

Max(a, b) == IF a >= b THEN a ELSE b
Min(a, b) == IF a <= b THEN a ELSE b
Abs(a) == IF a >= 0 THEN a ELSE 0 - a

(***************************************************************************)
(* Character strings                                                       *)
(***************************************************************************)
Digits == <<"0", "1", "2", "3", "4", "5", "6", "7", "8", "9">>

Alphabet == Digits \o <<"A", "B", "C", "D", "E", "F", "G", "H", "I", "J", "K",
                        "L", "M", "N", "O", "P", "Q", "R", "S", "T", "U", "V",
                        "W", "X", "Y", "Z", "a", "e", "g", "m", "o", "p", "v",
                        "x">>

CharRank(c) == CHOOSE i \in 1..Len(Alphabet) : Alphabet[i] = c

\* str.startswith
StartsWith(s, p) == Len(s) >= Len(p) /\ SubSeq(s, 1, Len(p)) = p

\* str.isdigit
IsDigit(s) == Len(s) > 0 /\ \A i \in 1..Len(s) : \E d \in 1..10 : Digits[d] = s[i]

DigitVal(c) == (CHOOSE d \in 1..10 : Digits[d] = c) - 1

RECURSIVE ParseInt(_)
\* int(s) for a string of decimal digits
ParseInt(s) ==
    IF Len(s) = 0 THEN 0
    ELSE 10 * ParseInt(SubSeq(s, 1, Len(s) - 1)) + DigitVal(s[Len(s)])

RECURSIVE StrLess(_, _)
\* a < b in the store's ascending order of text columns
StrLess(a, b) ==
    IF Len(b) = 0 THEN FALSE
    ELSE IF Len(a) = 0 THEN TRUE
    ELSE IF a[1] # b[1] THEN CharRank(a[1]) < CharRank(b[1])
    ELSE StrLess(Tail(a), Tail(b))

(***************************************************************************)
(* catalogue.py: the ITL1 code tables                                      *)
(***************************************************************************)
E12000001 == <<"E","1","2","0","0","0","0","0","1">>
E12000002 == <<"E","1","2","0","0","0","0","0","2">>
S92000003 == <<"S","9","2","0","0","0","0","0","3">>
E06000001 == <<"E","0","6","0","0","0","0","0","1">>
TLC3 == <<"T","L","C","3">>
TLC31 == <<"T","L","C","3","1">>
UKC == <<"U","K","C">>
UKD == <<"U","K","D">>
UKM == <<"U","K","M">>

E_CODE_PAIRS ==
    << << <<"E","1","2","0","0","0","0","0","1">>, <<"U","K","C">> >>,
       << <<"E","1","2","0","0","0","0","0","2">>, <<"U","K","D">> >>,
       << <<"E","1","2","0","0","0","0","0","3">>, <<"U","K","E">> >>,
       << <<"E","1","2","0","0","0","0","0","4">>, <<"U","K","F">> >>,
       << <<"E","1","2","0","0","0","0","0","5">>, <<"U","K","G">> >>,
       << <<"E","1","2","0","0","0","0","0","6">>, <<"U","K","H">> >>,
       << <<"E","1","2","0","0","0","0","0","7">>, <<"U","K","I">> >>,
       << <<"E","1","2","0","0","0","0","0","8">>, <<"U","K","J">> >>,
       << <<"E","1","2","0","0","0","0","0","9">>, <<"U","K","K">> >>,
       << <<"S","9","2","0","0","0","0","0","3">>, <<"U","K","M">> >>,
       << <<"W","9","2","0","0","0","0","0","4">>, <<"U","K","L">> >>,
       << <<"N","9","2","0","0","0","0","0","2">>, <<"U","K","N">> >> >>

\* E_CODE_TO_UK.get(code, code)
E_CODE_TO_UK(code) ==
    IF \E i \in 1..Len(E_CODE_PAIRS) : E_CODE_PAIRS[i][1] = code
    THEN E_CODE_PAIRS[CHOOSE i \in 1..Len(E_CODE_PAIRS) : E_CODE_PAIRS[i][1] = code][2]
    ELSE code

\* catalogue.py lines 46-59: TL_TO_UK
TL_PAIRS ==
    << << <<"T","L","C">>, <<"U","K","C">> >>,
       << <<"T","L","D">>, <<"U","K","D">> >>,
       << <<"T","L","E">>, <<"U","K","E">> >>,
       << <<"T","L","F">>, <<"U","K","F">> >>,
       << <<"T","L","G">>, <<"U","K","G">> >>,
       << <<"T","L","H">>, <<"U","K","H">> >>,
       << <<"T","L","I">>, <<"U","K","I">> >>,
       << <<"T","L","J">>, <<"U","K","J">> >>,
       << <<"T","L","K">>, <<"U","K","K">> >>,
       << <<"T","L","L">>, <<"U","K","L">> >>,
       << <<"T","L","M">>, <<"U","K","M">> >>,
       << <<"T","L","N">>, <<"U","K","N">> >> >>

\* TL_TO_UK[code]
TL_TO_UK(code) ==
    TL_PAIRS[CHOOSE i \in 1..Len(TL_PAIRS) : TL_PAIRS[i][1] = code][2]

\* code in UK_TO_E_CODE
InUK_TO_E_CODE(code) == \E i \in 1..Len(E_CODE_PAIRS) : E_CODE_PAIRS[i][2] = code

\* UK_TO_E_CODE[code]
UK_TO_E_CODE(code) ==
    E_CODE_PAIRS[CHOOSE i \in 1..Len(E_CODE_PAIRS) : E_CODE_PAIRS[i][2] = code][1]

(***************************************************************************)
(* models.py: the query grammar.  A selection is a record                  *)
(* [filter, values, from, to]; a field the filter does not use is <<>>.    *)
(***************************************************************************)
Item(vals) == [filter |-> "item", values |-> vals, from |-> <<>>, to |-> <<>>]
All == [filter |-> "all", values |-> <<>>, from |-> <<>>, to |-> <<>>]
Range(a, b) == [filter |-> "range", values |-> <<>>, from |-> a, to |-> b]
Absent == [filter |-> "absent", values |-> <<>>, from |-> <<>>, to |-> <<>>]

\* one QueryDim of the request's query list; a dimension left out adds none
Dim(code, sel) ==
    IF sel.filter = "absent" THEN <<>> ELSE <<[code |-> code, selection |-> sel]>>

QueryRequest(m, r, t, s, me, dt, limit, cursor) ==
    [query |-> Dim("metric", m) \o Dim("region", r) \o Dim("time_period", t)
               \o Dim("scenario", s) \o Dim("measure", me) \o Dim("data_type", dt),
     limit |-> limit,
     cursor |-> cursor]

\* list[str] | None
Some(vals) == [none |-> FALSE, vals |-> vals]
NoneList == [none |-> TRUE, vals |-> <<>>]

RECURSIVE ExtractFrom(_, _, _)
ExtractFrom(q, code, i) ==
    IF i > Len(q) THEN Some(<<>>)
    ELSE IF q[i].code # code THEN ExtractFrom(q, code, i + 1)
    ELSE IF q[i].selection.filter = "item" THEN Some(q[i].selection.values)
    ELSE IF q[i].selection.filter = "all" THEN NoneList
    ELSE IF q[i].selection.filter = "range"
         THEN Some(<<q[i].selection.from, q[i].selection.to>>)
    ELSE ExtractFrom(q, code, i + 1)

extract_values(r, code) == ExtractFrom(r.query, code, 1)

(***************************************************************************)
(* The cost estimator                                                      *)
(***************************************************************************)
ListCount(ev) == IF ev.none THEN 1 ELSE Max(1, Len(ev.vals))

YearCount(years) ==
    IF years.none THEN AllYears
    ELSE IF Len(years.vals) = 2 /\ IsDigit(years.vals[1]) /\ IsDigit(years.vals[2])
         THEN Max(1, Abs(ParseInt(years.vals[2]) - ParseInt(years.vals[1])) + 1)
    ELSE Max(1, Len(years.vals))

estimate_cost(r) ==
    LET metrics == extract_values(r, "metric")
        regions == extract_values(r, "region")
        years == extract_values(r, "time_period")
        scenarios == extract_values(r, "scenario")
        measures == extract_values(r, "measure")
        metric_count == IF metrics.none THEN AllMetrics ELSE ListCount(metrics)
        region_count == IF regions.none THEN AllRegions ELSE ListCount(regions)
        scenario_count == IF scenarios.none THEN 1 ELSE ListCount(scenarios)
        measure_count == IF measures.none THEN 1 ELSE ListCount(measures)
        year_count == IF years.none THEN AllYears ELSE YearCount(years)
    IN  Max(1, metric_count * region_count * year_count * scenario_count * measure_count)

\* Python integers are unbounded and TLC's are 32-bit: the estimate of a
\* request is computed only when the product fits
EstimateFits(r) ==
    LET metrics == extract_values(r, "metric")
        regions == extract_values(r, "region")
        a == (IF metrics.none THEN AllMetrics ELSE ListCount(metrics))
             * (IF regions.none THEN AllRegions ELSE ListCount(regions))
        b == YearCount(extract_values(r, "time_period"))
             * ListCount(extract_values(r, "scenario"))
             * ListCount(extract_values(r, "measure"))
    IN  a <= 2147483647 \div b


(***************************************************************************)
(* Scenario / measure resolution and value extraction                      *)
(***************************************************************************)
\* explicit_measure is None
NoMeasure == "None"

\* a faulty resolution (the two interval bounds exchanged) that C13 must tell
\* from the real one
choose_measure_Exchanged(scenario, explicit_measure) ==
    IF explicit_measure \in {"value", "ci_lower", "ci_upper"} THEN explicit_measure
    ELSE IF scenario = "upside" THEN "ci_lower"
    ELSE IF scenario = "downside" THEN "ci_upper"
    ELSE "value"

choose_measure_for_scenario(scenario, explicit_measure) ==
    IF explicit_measure \in {"value", "ci_lower", "ci_upper"} THEN explicit_measure
    ELSE IF scenario = "upside" THEN "ci_upper"
    ELSE IF scenario = "downside" THEN "ci_lower"
    ELSE "value"

\* a faulty extraction (observed rows not told apart) that C14 must tell from
\* the real one
pick_value_NoHistorical(row, measure) ==
    IF row[measure] = None THEN row.value ELSE row[measure]

pick_value(row, measure) ==
    IF row.data_type = "historical" THEN row.value
    ELSE IF row[measure] = None THEN row.value
    ELSE row[measure]

\* schema.py lines 27-34: _to_public_region_code
to_public_region_code(code) ==
    IF \E i \in 1..Len(E_CODE_PAIRS) : E_CODE_PAIRS[i][1] = code THEN E_CODE_TO_UK(code)
    ELSE IF \E i \in 1..Len(TL_PAIRS) : TL_PAIRS[i][1] = code THEN TL_TO_UK(code)
    ELSE code

(***************************************************************************)
(* Region code translation and level inference                             *)
(***************************************************************************)
\* a faulty translation (public codes sent to the store as they are) that C15
\* must tell from the real one
to_db_code_Untranslated(code) == code

to_db_code(code) ==
    IF StartsWith(code, <<"U", "K">>) /\ Len(code) = 3 /\ InUK_TO_E_CODE(code)
    THEN UK_TO_E_CODE(code)
    ELSE code

infer_level(db_code) ==
    IF \/ StartsWith(db_code, <<"E", "1", "2", "0">>)
       \/ StartsWith(db_code, <<"S", "9", "2", "0">>)
       \/ StartsWith(db_code, <<"W", "9", "2", "0">>)
       \/ StartsWith(db_code, <<"N", "9", "2", "0">>)
    THEN "ITL1"
    ELSE IF StartsWith(db_code, <<"T", "L">>)
         THEN (IF Len(db_code) = 4 THEN "ITL2" ELSE "ITL3")
    ELSE "LAD"

\* the keys of by_level, in the order the level loop visits them
Levels == <<"ITL1", "ITL2", "ITL3", "LAD">>

tables(lvl) ==
    CASE lvl = "ITL1" -> "itl1_latest_all"
      [] lvl = "ITL2" -> "itl2_latest_all"
      [] lvl = "ITL3" -> "itl3_latest_all"
      [] lvl = "LAD" -> "lad_latest_all"

(***************************************************************************)
(* The locals observations_query computes from the request before the      *)
(* fetch loops and never assigns again                                     *)
(***************************************************************************)
metric_ids(r) == extract_values(r, "metric")
region_codes(r) == extract_values(r, "region")
year_sel(r) == extract_values(r, "time_period")
measure_sel(r) == extract_values(r, "measure")
data_type_sel(r) == extract_values(r, "data_type")

\* _extract_values(req, "scenario") or ["baseline"]
scenario_sel(r) ==
    LET s == extract_values(r, "scenario")
    IN  IF s.none \/ Len(s.vals) = 0 THEN <<"baseline">> ELSE s.vals

explicit_measure(r) ==
    LET m == measure_sel(r)
    IN  IF ~m.none /\ Len(m.vals) > 0 THEN m.vals[1] ELSE NoMeasure

YearRangeGiven(r) ==
    LET y == year_sel(r)
    IN  ~y.none /\ Len(y.vals) = 2 /\ IsDigit(y.vals[1]) /\ IsDigit(y.vals[2])

year_from(r) == IF YearRangeGiven(r) THEN ParseInt(year_sel(r).vals[1]) ELSE DefaultYearFrom
year_to(r) == IF YearRangeGiven(r) THEN ParseInt(year_sel(r).vals[2]) ELSE DefaultYearTo

\* by_level[lvl]: the db codes of the requested regions of that level, in request order
by_level(r, lvl) ==
    LET codes == region_codes(r).vals
        db == [i \in 1..Len(codes) |-> to_db_code(codes[i])]
        OfLevel(c) == infer_level(c) = lvl
    IN  SelectSeq(db, OfLevel)

MAX_RETURN(r) == Min(ReturnCap, Max(1, r.limit))

\* [seq[i : i + n] for i in range(0, len(seq), n)]
Chunks(seq, n) ==
    [k \in 1..((Len(seq) + n - 1) \div n) |->
        SubSeq(seq, (k - 1) * n + 1, Min(k * n, Len(seq)))]

region_chunks(r, lvl) == Chunks(by_level(r, lvl), RegionBatch)
metric_chunks(r) == Chunks(metric_ids(r).vals, MetricBatch)

SeqToSet(s) == {s[i] : i \in 1..Len(s)}

(***************************************************************************)
(* The remote store: four tables of rows, read through                     *)
(* get(table, token, params) with the filters, order, offset and limit     *)
(* the handler sends.                                                      *)
(***************************************************************************)
RowLess(a, b) ==
    IF a.metric_id # b.metric_id THEN StrLess(a.metric_id, b.metric_id)
    ELSE IF a.region_code # b.region_code THEN StrLess(a.region_code, b.region_code)
    ELSE a.period < b.period

RECURSIVE SortRows(_)
\* order=metric_id.asc,region_code.asc,period.asc
SortRows(S) ==
    IF S = {} THEN <<>>
    ELSE LET m == CHOOSE x \in S : \A y \in S \ {x} : RowLess(x, y)
         IN  <<m>> \o SortRows(S \ {m})

\* the rows of the table that pass the filters of one batch
Matching(st, table, rchunk, mchunk, yfrom, yto, dts) ==
    {row \in st[table] :
        /\ row.region_code \in SeqToSet(rchunk)
        /\ row.metric_id \in SeqToSet(mchunk)
        /\ row.period >= yfrom
        /\ row.period <= yto
        /\ (~dts.none /\ Len(dts.vals) > 0) => row.data_type \in SeqToSet(dts.vals)}

\* offset / limit applied to the ordered rows
Page(sorted, off, lim) ==
    IF off >= Len(sorted) \/ lim <= 0 THEN <<>>
    ELSE SubSeq(sorted, off + 1, Min(Len(sorted), off + lim))

StoreGet(st, table, rchunk, mchunk, yfrom, yto, dts, off, lim) ==
    Page(SortRows(Matching(st, table, rchunk, mchunk, yfrom, yto, dts)), off, lim)


(***************************************************************************)
(* Inputs: the datasets the store may hold and the requests a caller may   *)
(* send                                                                    *)
(***************************************************************************)
pop == <<"p", "o", "p">>
gva == <<"g", "v", "a">>
emp == <<"e", "m", "p">>

Y2020 == <<"2", "0", "2", "0">>
Y2021 == <<"2", "0", "2", "1">>
Y2001 == <<"2", "0", "0", "1">>
Y1991 == <<"1", "9", "9", "1">>
Y2050 == <<"2", "0", "5", "0">>
Y20x0 == <<"2", "0", "x", "0">>

FirstPeriod == 2020
LastPeriod == 2021

\* one row per (metric, region, period): periods up to FirstPeriod are
\* observed, later ones forecast with a confidence interval
Row(region, metric, period) ==
    [region_code |-> region,
     metric_id |-> metric,
     period |-> period,
     data_type |-> IF period <= FirstPeriod THEN "historical" ELSE "forecast",
     value |-> period - FirstPeriod + 10,
     ci_lower |-> period - FirstPeriod + 8,
     ci_upper |-> IF metric = gva THEN None ELSE period - FirstPeriod + 12]

Rows(regions, metrics, periods) ==
    {Row(r, m, p) : r \in regions, m \in metrics, p \in periods}

Datasets ==
    { [itl1_latest_all |-> Rows({E12000001, E12000002, S92000003}, {pop, gva, emp},
                                FirstPeriod..LastPeriod),
       itl2_latest_all |-> Rows({TLC3}, {pop, gva, emp}, FirstPeriod..LastPeriod),
       itl3_latest_all |-> Rows({TLC31}, {pop}, FirstPeriod..LastPeriod),
       lad_latest_all |-> Rows({E06000001}, {pop}, {FirstPeriod})],
      [itl1_latest_all |-> Rows({E12000001}, {pop}, FirstPeriod..LastPeriod),
       itl2_latest_all |-> {},
       itl3_latest_all |-> {},
       lad_latest_all |-> {}] }

MetricSels == {Absent, All, Item(<<pop>>), Item(<<pop, gva>>), Item(<<emp, pop, gva>>)}

RegionSels ==
    {Absent, All, Item(<<UKC>>), Item(<<UKD, UKC>>), Item(<<UKC, UKM, UKD>>),
     Item(<<E06000001, TLC3, E12000001>>), Item(<<UKC, UKD, E12000001>>)}

TimeSels ==
    {Absent, All, Item(<<Y2021>>), Item(<<Y2001, Y2050>>), Range(Y2020, Y2021),
     Range(Y2001, Y2050), Range(Y1991, Y2050), Range(Y20x0, Y2021)}

ScenarioSels == {Absent, Item(<<"upside", "downside">>)}

MeasureSels == {Absent, Item(<<"ci_lower">>)}

DataTypeSels == {Absent, Item(<<"historical">>)}

Limits == 0..MaxLimit

(***************************************************************************)
(* State                                                                   *)
(***************************************************************************)
VARIABLES
    store,      \* the dataset behind the four tables (it never changes)
    req,        \* the QueryRequest being served
    pc,         \* where observations_query stands
    estimated,  \* estimated = _estimate_cost(req)
    records,    \* records: the ObservationRecords accumulated so far
    lvl,        \* index into Levels of the level loop
    ri,         \* index of rchunk in region_chunks
    mi,         \* index of mchunk in metric_chunks
    offset,     \* offset of the page loop
    rows,       \* rows of the page being expanded
    rowi,       \* index of row in rows
    sci,        \* index of scenario in scenario_sel
    fetches,    \* the supa.get calls issued while serving req
    response,   \* the response or error of the request
    history     \* the successful responses the caller got before this request

vars == <<store, req, pc, estimated, records, lvl, ri, mi, offset, rows, rowi, sci,
          fetches, response, history>>

NoResponse == [kind |-> "none"]

Init ==
    /\ store \in Datasets
    /\ \E m \in MetricSels, r \in RegionSels, t \in TimeSels, s \in ScenarioSels,
          me \in MeasureSels, dt \in DataTypeSels, limit \in Limits :
          /\ req = QueryRequest(m, r, t, s, me, dt, limit, None)
          /\ EstimateFits(req)
    /\ pc = "gate"
    /\ estimated = 0
    /\ records = <<>>
    /\ lvl = 1
    /\ ri = 1
    /\ mi = 1
    /\ offset = 0
    /\ rows = <<>>
    /\ rowi = 1
    /\ sci = 1
    /\ fetches = <<>>
    /\ response = NoResponse
    /\ history = <<>>

(***************************************************************************)
(* observations_query, step by step                                        *)
(***************************************************************************)
\* lines 238-251: the ObservationRecord of one row and one scenario
ObservationRecord(row, level, scenario, measure) ==
    [metric_id |-> row.metric_id,
     region_code |-> E_CODE_TO_UK(row.region_code),
     level |-> level,
     time_period |-> row.period,
     scenario |-> scenario,
     measure |-> measure,
     value |-> pick_value(row, measure),
     data_type |-> row.data_type]

\* line 216: ("limit", str(min(10_000, MAX_RETURN - len(records))))
PageLimit(r, recs) == Min(PageSize, MAX_RETURN(r) - Len(recs))

\* a faulty cap test (> for >=) that C5 must tell from the real one
CapReached_Above(r, recs) == Len(recs) > MAX_RETURN(r)

\* lines 253-258 and 263-266: len(records) >= MAX_RETURN
CapReached(r, recs) == Len(recs) >= MAX_RETURN(r)

\* a faulty page loop (a short page does not end it) that C18 must tell from
\* the real one
ShortPage_Never(rs) == FALSE

\* line 261: len(rows) < 10_000
ShortPage(rs) == Len(rs) < PageSize

\* _domain_error(status, code, message, details)
DomainError(status, code, details) ==
    [kind |-> "error", status |-> status, code |-> code, details |-> details]

\* a faulty gate (>= for >) that C8 must tell from the real one
TooLarge_Geq(est) == est >= MaxCost

\* line 115: estimated > max_cost
TooLarge(est) == est > MaxCost

\* lines 113-121: the cost gate
CostGate ==
    /\ pc = "gate"
    /\ estimated' = estimate_cost(req)
    /\ IF TooLarge(estimated')
       THEN /\ response' = DomainError(400, "QUERY_TOO_LARGE",
                               [estimated_records |-> estimated', max_records |-> MaxCost])
            /\ pc' = "error"
       ELSE /\ pc' = "validate"
            /\ UNCHANGED response
    /\ UNCHANGED <<store, req, records, lvl, ri, mi, offset, rows, rowi, sci, fetches,
                   history>>

\* lines 123-186: the unbounded-query gate, then the plan (the store client
\* is taken to be configured: get_supabase_rest does not raise)
Validate ==
    /\ pc = "validate"
    /\ IF metric_ids(req).none \/ region_codes(req).none
       THEN /\ response' = DomainError(400, "UNBOUNDED_QUERY",
                               [hint |-> "Use schema to enumerate values, then query a subset."])
            /\ pc' = "error"
       ELSE /\ pc' = "level"
            /\ UNCHANGED response
    /\ records' = <<>>
    /\ lvl' = 1
    /\ UNCHANGED <<store, req, estimated, ri, mi, offset, rows, rowi, sci, fetches,
                   history>>

\* lines 193-200: for lvl, codes in by_level.items()
LevelLoop ==
    /\ pc = "level"
    /\ IF lvl > Len(Levels)
       THEN /\ pc' = "respond"
            /\ UNCHANGED <<lvl, ri>>
       ELSE IF Len(by_level(req, Levels[lvl])) = 0
       THEN /\ lvl' = lvl + 1
            /\ UNCHANGED <<pc, ri>>
       ELSE /\ pc' = "rchunk"
            /\ ri' = 1
            /\ UNCHANGED lvl
    /\ UNCHANGED <<store, req, estimated, records, mi, offset, rows, rowi, sci, fetches,
                   response, history>>

\* lines 202-203: for rchunk in region_chunks (its end falls through to the
\* next level)
RegionChunkLoop ==
    /\ pc = "rchunk"
    /\ IF ri > Len(region_chunks(req, Levels[lvl]))
       THEN /\ pc' = "level"
            /\ lvl' = lvl + 1
            /\ ri' = 1
            /\ UNCHANGED mi
       ELSE /\ pc' = "mchunk"
            /\ mi' = 1
            /\ UNCHANGED <<lvl, ri>>
    /\ UNCHANGED <<store, req, estimated, records, offset, rows, rowi, sci, fetches,
                   response, history>>

\* a faulty start offset (the cursor ignored) that C1 must tell from the real one
StartOffset_Zero(r) == 0

\* line 206: offset = req.cursor or 0
StartOffset(r) == IF r.cursor = None THEN 0 ELSE r.cursor

\* lines 204-206 and 265-266: for mchunk in metric_chunks; when the loop is
\* over, the region loop breaks if the cap is reached and goes on otherwise
MetricChunkLoop ==
    /\ pc = "mchunk"
    /\ IF mi > Len(metric_chunks(req))
       THEN IF CapReached(req, records)
            THEN /\ pc' = "level"
                 /\ lvl' = lvl + 1
                 /\ ri' = 1
                 /\ mi' = 1
                 /\ UNCHANGED offset
            ELSE /\ pc' = "rchunk"
                 /\ ri' = ri + 1
                 /\ mi' = 1
                 /\ UNCHANGED <<lvl, offset>>
       ELSE /\ pc' = "fetch"
            /\ offset' = StartOffset(req)
            /\ UNCHANGED <<lvl, ri, mi>>
    /\ UNCHANGED <<store, req, estimated, records, rows, rowi, sci, fetches, response,
                   history>>


\* lines 207-231: one supa.get of the page loop; an empty page ends the
\* loop, and lines 263-266 then leave the metric and region loops if the cap
\* is reached
Fetch ==
    /\ pc = "fetch"
    /\ LET level == Levels[lvl]
           rchunk == region_chunks(req, level)[ri]
           mchunk == metric_chunks(req)[mi]
           limit == PageLimit(req, records)
           got == StoreGet(store, tables(level), rchunk, mchunk, year_from(req),
                           year_to(req), data_type_sel(req), offset, limit)
       IN  /\ fetches' = Append(fetches,
                            [table |-> tables(level), offset |-> offset, limit |-> limit,
                             ok |-> TRUE])
           /\ IF Len(got) = 0
              THEN /\ rows' = <<>>
                   /\ IF CapReached(req, records)
                      THEN /\ pc' = "level"
                           /\ lvl' = lvl + 1
                           /\ ri' = 1
                           /\ mi' = 1
                      ELSE /\ pc' = "mchunk"
                           /\ mi' = mi + 1
                           /\ UNCHANGED <<lvl, ri>>
              ELSE /\ rows' = got
                   /\ pc' = "expand"
                   /\ UNCHANGED <<lvl, ri, mi>>
    /\ rowi' = 1
    /\ sci' = 1
    /\ UNCHANGED <<store, req, estimated, records, offset, response, history>>

\* supabase_rest.py lines 21-33: what makes supa.get raise: requests.get
\* fails to connect, the call exceeds timeout=15, or the store answers with
\* a status of 400 or more
FetchFailures == {"transport", "timeout", "status"}

\* a faulty handler (the exception swallowed and the page taken to be empty)
\* that C11 must tell from the real one
FetchFail_Swallow ==
    /\ pc = "fetch"
    /\ fetches' = Append(fetches,
                     [table |-> tables(Levels[lvl]), offset |-> offset,
                      limit |-> PageLimit(req, records), ok |-> FALSE])
    /\ pc' = "mchunk"
    /\ mi' = mi + 1
    /\ UNCHANGED <<store, req, estimated, records, lvl, ri, offset, rows, rowi, sci,
                   response, history>>

\* lines 221-229: supa.get raises; the handler raises DATA_UNAVAILABLE with
\* the table and str(e), and the records accumulated so far are dropped with
\* the call
FetchFail ==
    /\ pc = "fetch"
    /\ fetches' = Append(fetches,
                     [table |-> tables(Levels[lvl]), offset |-> offset,
                      limit |-> PageLimit(req, records), ok |-> FALSE])
    /\ \E reason \in FetchFailures :
          response' = DomainError(500, "DATA_UNAVAILABLE",
                          [table |-> tables(Levels[lvl]), reason |-> reason])
    /\ pc' = "error"
    /\ UNCHANGED <<store, req, estimated, records, lvl, ri, mi, offset, rows, rowi, sci,
                   history>>

\* lines 233-266: append the record of rows[rowi] and scenario_sel[sci]; at
\* the cap every loop up to the region loop breaks; after the last scenario
\* of the last row the offset advances, and a short page ends the page loop
Expand ==
    /\ pc = "expand"
    /\ LET scenario == scenario_sel(req)[sci]
           measure == choose_measure_for_scenario(scenario, explicit_measure(req))
       IN  records' = Append(records,
                             ObservationRecord(rows[rowi], Levels[lvl], scenario, measure))
    /\ IF CapReached(req, records')
       THEN /\ pc' = "level"
            /\ lvl' = lvl + 1
            /\ ri' = 1
            /\ mi' = 1
            /\ rows' = <<>>
            /\ rowi' = 1
            /\ sci' = 1
            /\ UNCHANGED offset
       ELSE IF sci < Len(scenario_sel(req))
       THEN /\ sci' = sci + 1
            /\ UNCHANGED <<pc, lvl, ri, mi, rows, rowi, offset>>
       ELSE IF rowi < Len(rows)
       THEN /\ rowi' = rowi + 1
            /\ sci' = 1
            /\ UNCHANGED <<pc, lvl, ri, mi, rows, offset>>
       ELSE /\ offset' = offset + Len(rows)
            /\ rows' = <<>>
            /\ rowi' = 1
            /\ sci' = 1
            /\ IF ShortPage(rows)
               THEN /\ pc' = "mchunk"
                    /\ mi' = mi + 1
               ELSE /\ pc' = "fetch"
                    /\ UNCHANGED mi
            /\ UNCHANGED <<lvl, ri>>
    /\ UNCHANGED <<store, req, estimated, fetches, response, history>>

\* line 278
Truncated(r, recs) == Len(recs) >= MAX_RETURN(r)

\* a faulty next_cursor (the request cursor left out) that C4 must tell from
\* the real one
NextCursor_NoCursor(r, recs) ==
    IF Len(recs) >= MAX_RETURN(r) THEN Len(recs) ELSE None

\* line 283
NextCursor(r, recs) ==
    IF Len(recs) >= MAX_RETURN(r)
    THEN (IF r.cursor = None THEN 0 ELSE r.cursor) + Len(recs)
    ELSE None

\* lines 272-284: ResponseMeta
ResponseMeta(r, est, recs) ==
    [estimated_records |-> est,
     returned_records |-> Len(recs),
     truncated |-> Truncated(r, recs),
     next_cursor |-> NextCursor(r, recs)]

\* lines 268-290: QueryResponse(meta=meta, data=records)
Respond ==
    /\ pc = "respond"
    /\ response' = [kind |-> "success", cursor |-> req.cursor,
                    meta |-> ResponseMeta(req, estimated, records), data |-> records]
    /\ pc' = "done"
    /\ UNCHANGED <<store, req, estimated, records, lvl, ri, mi, offset, rows, rowi, sci,
                   fetches, history>>

\* the caller resumes pagination: the same query with cursor = next_cursor
Resubmit ==
    /\ pc = "done"
    /\ response.meta.next_cursor # None
    /\ Len(history) + 1 < MaxCalls
    /\ history' = Append(history, response)
    /\ req' = [req EXCEPT !.cursor = response.meta.next_cursor]
    /\ pc' = "gate"
    /\ estimated' = 0
    /\ records' = <<>>
    /\ lvl' = 1
    /\ ri' = 1
    /\ mi' = 1
    /\ offset' = 0
    /\ fetches' = <<>>
    /\ response' = NoResponse
    /\ UNCHANGED <<store, rows, rowi, sci>>

Next ==
    \/ CostGate
    \/ Validate
    \/ LevelLoop
    \/ RegionChunkLoop
    \/ MetricChunkLoop
    \/ Fetch
    \/ FetchFail
    \/ Expand
    \/ Respond
    \/ Resubmit

Spec == Init /\ [][Next]_vars

(***************************************************************************)
(* A second set of requests: one region drawn from every code vocabulary   *)
(* and shape, and every kind of scenario and measure selection, served by  *)
(* the same handler                                                        *)
(***************************************************************************)
\* catalogue.py lines 28-41: the keys of E_CODE_TO_UK
ITL1Statistical == {E_CODE_PAIRS[i][1] : i \in 1..Len(E_CODE_PAIRS)}

\* catalogue.py lines 28-41: the values of E_CODE_TO_UK
ITL1Public == {E_CODE_PAIRS[i][2] : i \in 1..Len(E_CODE_PAIRS)}

\* catalogue.py lines 46-59: the keys of TL_TO_UK
ITL1Derived == {TL_PAIRS[i][1] : i \in 1..Len(TL_PAIRS)}

\* codes of no ITL1 table: ITL2, ITL3 and LAD codes, the country code, and
\* codes that only look like ITL1 or TL codes
OtherCodes ==
    {<<"T","L","C","3">>, <<"T","L","C","3","1">>,
     <<"E","0","6","0","0","0","0","0","1">>, <<"U","K">>,
     <<"U","K","Z">>, <<"U","K","C","1">>, <<"T","L">>,
     <<"T","L","C","3","1","1">>, <<"E","1","2">>,
     <<"S","1","2","0","0","0","0","0","5">>,
     <<"K","0","2","0","0","0","0","0","1">>}

CodePool == ITL1Statistical \cup ITL1Public \cup ITL1Derived \cup OtherCodes

WideMetricSels == {Item(<<pop>>), Item(<<gva>>)}

WideScenarioSels ==
    {Absent, All, Item(<<"baseline">>), Item(<<"upside", "downside">>),
     Item(<<"stress", "upside">>)}

WideMeasureSels ==
    {Absent, All, Item(<<>>), Item(<<"value">>), Item(<<"ci_lower">>),
     Item(<<"ci_upper">>), Item(<<"growth_yoy">>), Item(<<"ci_upper", "value">>)}

WideLimits == {1, MaxLimit}

WideInit ==
    /\ store \in Datasets
    /\ \E m \in WideMetricSels, c \in CodePool, s \in WideScenarioSels,
          me \in WideMeasureSels, limit \in WideLimits :
          /\ req = QueryRequest(m, Item(<<c>>), Absent, s, me, Absent, limit, None)
          /\ EstimateFits(req)
    /\ pc = "gate"
    /\ estimated = 0
    /\ records = <<>>
    /\ lvl = 1
    /\ ri = 1
    /\ mi = 1
    /\ offset = 0
    /\ rows = <<>>
    /\ rowi = 1
    /\ sci = 1
    /\ fetches = <<>>
    /\ response = NoResponse
    /\ history = <<>>

WideSpec == WideInit /\ [][Next]_vars

(***************************************************************************)
(* A third specification: one request served against a store that answers  *)
(* a fetch as it likes, with any rows up to the number asked for or with a *)
(* failure, for as long as it is asked. The handler's control reads        *)
(* nothing of a page but its length, so the rows come from a fixed pool.   *)
(***************************************************************************)
\* rows to answer with: as many as a full page
AnyPool ==
    [i \in 1..PageSize |->
        Row(E12000001, IF i % 2 = 1 THEN pop ELSE gva, LastPeriod)]

\* supabase_rest.py lines 21-33: r.json() of a store that ignores the filters
\* and the offset and keeps to the limit
AnyAnswers(lim) == {SubSeq(AnyPool, 1, k) : k \in 0..Min(Max(lim, 0), Len(AnyPool))}

\* lines 207-231 against that store
FetchAny ==
    /\ pc = "fetch"
    /\ fetches' = Append(fetches,
                     [table |-> tables(Levels[lvl]), offset |-> offset,
                      limit |-> PageLimit(req, records), ok |-> TRUE])
    /\ \E got \in AnyAnswers(PageLimit(req, records)) :
          IF Len(got) = 0
          THEN /\ rows' = <<>>
               /\ IF CapReached(req, records)
                  THEN /\ pc' = "level"
                       /\ lvl' = lvl + 1
                       /\ ri' = 1
                       /\ mi' = 1
                  ELSE /\ pc' = "mchunk"
                       /\ mi' = mi + 1
                       /\ UNCHANGED <<lvl, ri>>
          ELSE /\ rows' = got
               /\ pc' = "expand"
               /\ UNCHANGED <<lvl, ri, mi>>
    /\ rowi' = 1
    /\ sci' = 1
    /\ UNCHANGED <<store, req, estimated, records, offset, response, history>>

AnyMetricSels == {Item(<<pop>>), Item(<<emp, pop, gva>>)}

AnyRegionSels ==
    {Item(<<UKC>>), Item(<<UKC, UKM, UKD>>), Item(<<E06000001, TLC3, E12000001>>)}

AnyInit ==
    /\ store \in Datasets
    /\ \E m \in AnyMetricSels, r \in AnyRegionSels, s \in ScenarioSels, limit \in Limits :
          /\ req = QueryRequest(m, r, Absent, s, Absent, Absent, limit, None)
          /\ EstimateFits(req)
    /\ pc = "gate"
    /\ estimated = 0
    /\ records = <<>>
    /\ lvl = 1
    /\ ri = 1
    /\ mi = 1
    /\ offset = 0
    /\ rows = <<>>
    /\ rowi = 1
    /\ sci = 1
    /\ fetches = <<>>
    /\ response = NoResponse
    /\ history = <<>>

AnyNext ==
    \/ CostGate
    \/ Validate
    \/ LevelLoop
    \/ RegionChunkLoop
    \/ MetricChunkLoop
    \/ FetchAny
    \/ FetchFail
    \/ Expand
    \/ Respond

\* observations_query is a sequential function: once called it takes its
\* next step for as long as it has one
AnySpec == AnyInit /\ [][AnyNext]_vars /\ WF_vars(AnyNext)


(***************************************************************************)
(* Reference definitions the properties are stated with                    *)
(***************************************************************************)
RECURSIVE FlattenSeq(_)
FlattenSeq(ss) == IF Len(ss) = 0 THEN <<>> ELSE Head(ss) \o FlattenSeq(Tail(ss))

Count(seq, x) == Cardinality({i \in 1..Len(seq) : seq[i] = x})

\* the same elements, each as often
SameBag(a, b) ==
    /\ Len(a) = Len(b)
    /\ \A i \in 1..Len(a) : Count(a, a[i]) = Count(b, a[i])

\* the records of a sequence of rows: one per row and requested scenario
RecordsOf(r, level, sorted) ==
    FlattenSeq([i \in 1..Len(sorted) |->
        [j \in 1..Len(scenario_sel(r)) |->
            ObservationRecord(sorted[i], level, scenario_sel(r)[j],
                choose_measure_for_scenario(scenario_sel(r)[j], explicit_measure(r)))]])

\* the ordered rows of the store that one (region batch, metric batch) matches
BatchRows(st, r, level, rchunk, mchunk) ==
    SortRows(Matching(st, tables(level), rchunk, mchunk, year_from(r), year_to(r),
                      data_type_sel(r)))

\* every record the query matches: what the request would return were there
\* no cap
UncappedResult(st, r) ==
    FlattenSeq([l \in 1..Len(Levels) |->
        FlattenSeq([i \in 1..Len(region_chunks(r, Levels[l])) |->
            FlattenSeq([j \in 1..Len(metric_chunks(r)) |->
                RecordsOf(r, Levels[l],
                          BatchRows(st, r, Levels[l], region_chunks(r, Levels[l])[i],
                                    metric_chunks(r)[j]))])])])

Explicit(r) == ~metric_ids(r).none /\ ~region_codes(r).none

HasDim(r, code) == \E i \in 1..Len(r.query) : r.query[i].code = code

Succeeded == pc = "done" /\ response.kind = "success"

Rejected(code) == pc = "error" /\ response.kind = "error" /\ response.code = code

\* the request of the first call of the session
FirstRequest == [req EXCEPT !.cursor = None]

\* the level of the requested regions when they all are of one level
LevelsUsed(r) == {l \in 1..Len(Levels) : Len(by_level(r, Levels[l])) > 0}

\* one level, one region batch, one metric batch, one scenario
SingleBatch(r) ==
    /\ Explicit(r)
    /\ Cardinality(LevelsUsed(r)) = 1
    /\ Len(region_codes(r).vals) <= RegionBatch
    /\ Len(metric_ids(r).vals) \in 1..MetricBatch
    /\ Len(scenario_sel(r)) = 1

\* the N rows that match the filters of a single-batch request, in order
SingleBatchRows(st, r) ==
    LET level == Levels[CHOOSE l \in LevelsUsed(r) : TRUE]
    IN  BatchRows(st, r, level, by_level(r, level), metric_ids(r).vals)

SingleBatchLevel(r) == Levels[CHOOSE l \in LevelsUsed(r) : TRUE]

\* the records of rows a+1 .. b of a single-batch request
Slice(st, r, a, b) ==
    RecordsOf(r, SingleBatchLevel(r), SubSeq(SingleBatchRows(st, r), a + 1, b))

(***************************************************************************)
(* C1 as stated: single batch, one scenario, N matching rows, limit L < N, *)
(* no cursor: the response holds the first L rows in (metric_id,           *)
(* region_code, period) order with returned_records = L, truncated = true  *)
(* and next_cursor = L; the same query with cursor = L returns rows        *)
(* L .. 2L-1 with next_cursor = 2L.                                        *)
(***************************************************************************)
C1_PaginationAsStated ==
    LET L == req.limit
        N == Len(SingleBatchRows(store, req))
    IN  (Succeeded /\ SingleBatch(req) /\ L < N) =>
           /\ Len(history) = 0 =>
                 /\ response.data = Slice(store, req, 0, L)
                 /\ response.meta.returned_records = L
                 /\ response.meta.truncated
                 /\ response.meta.next_cursor = L
           /\ (Len(history) = 1 /\ req.cursor = L) =>
                 /\ response.data = Slice(store, req, L, 2 * L)
                 /\ response.meta.next_cursor = 2 * L

(***************************************************************************)
(* C1 amended: the same for a limit 1 <= L <= the return cap, L < N; the   *)
(* resubmission with cursor = L returns rows L .. 2L-1 with                *)
(* next_cursor = 2L when 2L <= N.                                          *)
(***************************************************************************)
C1_Pagination ==
    LET L == req.limit
        N == Len(SingleBatchRows(store, req))
    IN  (Succeeded /\ SingleBatch(req) /\ L >= 1 /\ L <= ReturnCap /\ L < N) =>
           /\ Len(history) = 0 =>
                 /\ response.data = Slice(store, req, 0, L)
                 /\ response.meta.returned_records = L
                 /\ response.meta.truncated
                 /\ response.meta.next_cursor = L
           /\ (Len(history) = 1 /\ req.cursor = L /\ 2 * L <= N) =>
                 /\ response.data = Slice(store, req, L, 2 * L)
                 /\ response.meta.returned_records = L
                 /\ response.meta.truncated
                 /\ response.meta.next_cursor = 2 * L

\* the second call of a session answered with the second L rows, each call
\* taking more than one page
C1_Witness ==
    /\ Succeeded
    /\ SingleBatch(req)
    /\ Len(history) = 1
    /\ req.limit > PageSize
    /\ req.limit <= ReturnCap
    /\ req.cursor = req.limit
    /\ 2 * req.limit <= Len(SingleBatchRows(store, req))
    /\ Len(fetches) = 2
    /\ response.meta.next_cursor = 2 * req.limit


\* the records of every response of the session so far, in order
Collected ==
    FlattenSeq([i \in 1..Len(history) |-> history[i].data]) \o response.data

(***************************************************************************)
(* C2: following next_cursor until it is absent returns, in total, every   *)
(* record of the uncapped result exactly once (several scenarios, levels,  *)
(* region batches or metric batches included).                             *)
(***************************************************************************)
C2_ResumeWithoutLossOrDuplication ==
    (Succeeded /\ response.meta.next_cursor = None) =>
        SameBag(Collected, UncappedResult(store, FirstRequest))

(***************************************************************************)
(* C3: truncated is true iff the record count reached the global cap       *)
(* before all matching rows were exhausted; a response that holds every    *)
(* matching record has truncated = false, also when their number equals    *)
(* the cap.                                                                *)
(***************************************************************************)
C3_TruncatedIffRowsRemain ==
    (Succeeded /\ Len(history) = 0) =>
        (response.meta.truncated <=>
            /\ Len(response.data) = MAX_RETURN(req)
            /\ Len(UncappedResult(store, req)) > Len(response.data))

(***************************************************************************)
(* C4: in every successful response next_cursor is present iff truncated,  *)
(* and then equals (request cursor or 0) + returned_records.               *)
(***************************************************************************)
C4_NextCursor ==
    Succeeded =>
        /\ (response.meta.next_cursor # None) <=> response.meta.truncated
        /\ response.meta.truncated =>
              response.meta.next_cursor
                 = (IF req.cursor = None THEN 0 ELSE req.cursor)
                   + response.meta.returned_records

\* a truncated response to a resubmitted request (cursor > 0)
C4_Witness ==
    /\ Succeeded
    /\ req.cursor # None
    /\ req.cursor > 0
    /\ response.meta.truncated
    /\ response.meta.returned_records > 0

(***************************************************************************)
(* C5: the accumulated record count never exceeds the global cap           *)
(* min(cap, max(1, limit)), summed over all levels, batches, pages and     *)
(* scenarios, and returned_records is the length of the data list.         *)
(***************************************************************************)
C5_GlobalCap ==
    /\ Len(records) <= Min(ReturnCap, Max(1, req.limit))
    /\ Succeeded =>
          /\ response.meta.returned_records = Len(response.data)
          /\ Len(response.data) <= Min(ReturnCap, Max(1, req.limit))

\* the cap reached in the middle of a row's scenarios, with records of two
\* batches accumulated
C5_Witness ==
    /\ Succeeded
    /\ Len(response.data) = MAX_RETURN(req)
    /\ Len(scenario_sel(req)) > 1
    /\ response.data[Len(response.data)].scenario = scenario_sel(req)[1]
    /\ \E i \in 1..Len(response.data) :
          response.data[i].level # response.data[1].level

(***************************************************************************)
(* C6: a query with metric = all or region = all is always rejected with   *)
(* UNBOUNDED_QUERY (HTTP 400), whatever its other dimensions.              *)
(***************************************************************************)
C6_AllIsUnboundedQuery ==
    ((metric_ids(req).none \/ region_codes(req).none) /\ pc \in {"done", "error"}) =>
        /\ Rejected("UNBOUNDED_QUERY")
        /\ response.status = 400

(***************************************************************************)
(* C7: a query with no metric dimension, or no region dimension, that      *)
(* reaches the precondition check is rejected there with UNBOUNDED_QUERY   *)
(* and issues no fetch; it is never answered with a successful response.   *)
(***************************************************************************)
C7_AbsentIsUnboundedQuery ==
    ((~HasDim(req, "metric") \/ ~HasDim(req, "region"))
        /\ pc \in {"done", "error"} /\ estimated <= MaxCost) =>
        /\ Rejected("UNBOUNDED_QUERY")
        /\ fetches = <<>>

(***************************************************************************)
(* C8: a query whose estimate exceeds 250,000 is rejected with             *)
(* QUERY_TOO_LARGE (HTTP 400, the estimate and the ceiling in the details) *)
(* and no fetch is issued for it; a query whose estimate is at most        *)
(* 250,000 is never rejected with QUERY_TOO_LARGE.                         *)
(***************************************************************************)
C8_CostGate ==
    LET est == estimate_cost(req)
    IN  /\ (est > 250000) => fetches = <<>>
        /\ (est > 250000 /\ pc # "gate") =>
              /\ Rejected("QUERY_TOO_LARGE")
              /\ response.status = 400
              /\ response.details = [estimated_records |-> est, max_records |-> 250000]
        /\ (est <= 250000) => ~Rejected("QUERY_TOO_LARGE")

\* a rejection by the gate
C8_Witness ==
    /\ Rejected("QUERY_TOO_LARGE")
    /\ response.details.estimated_records > 250000
    /\ fetches = <<>>

(***************************************************************************)
(* C9: the estimate is an upper bound of the number of records the query   *)
(* matches, so estimated_records >= returned_records in every successful   *)
(* response.                                                               *)
(***************************************************************************)
C9_EstimateIsUpperBound ==
    Succeeded => response.meta.estimated_records >= response.meta.returned_records

\* the request with one more value in the item list of a dimension
Grow(r, code, v) ==
    [r EXCEPT !.query =
        [i \in 1..Len(r.query) |->
            IF r.query[i].code = code /\ r.query[i].selection.filter = "item"
            THEN [r.query[i] EXCEPT !.selection.values = Append(@, v)]
            ELSE r.query[i]]]

(***************************************************************************)
(* C10: the estimate does not decrease when the item list of one           *)
(* dimension (metric, region, time_period, scenario or measure) grows      *)
(* (stated for the requests the cost gate lets through).                   *)
(***************************************************************************)
C10_EstimateMonotone ==
    (pc = "validate") =>
        /\ \A v \in {emp, gva} : estimate_cost(Grow(req, "metric", v)) >= estimated
        /\ \A v \in {UKC, TLC3} : estimate_cost(Grow(req, "region", v)) >= estimated
        /\ \A v \in {Y2020, Y2021} :
              estimate_cost(Grow(req, "time_period", v)) >= estimated
        /\ \A v \in {"baseline", "upside"} :
              estimate_cost(Grow(req, "scenario", v)) >= estimated
        /\ \A v \in {"value", "ci_upper"} :
              estimate_cost(Grow(req, "measure", v)) >= estimated


(***************************************************************************)
(* C11: a failed page fetch (transport error, timeout, store status of 400 *)
(* or more) ends the request with the single error DATA_UNAVAILABLE (HTTP  *)
(* 500) whose details carry the table and the reason; the error carries    *)
(* none of the records accumulated so far, the failed fetch is the last    *)
(* fetch of the request (it is not retried and none follows it), and       *)
(* DATA_UNAVAILABLE is raised by nothing else                              *)
(***************************************************************************)
FailedFetches == {i \in 1..Len(fetches) : ~fetches[i].ok}

\* C11: a failed fetch is the last fetch and ends in DATA_UNAVAILABLE (500)
\* with the table and the reason and without data
C11_FetchFailureIsFatal ==
    /\ FailedFetches # {} =>
          /\ FailedFetches = {Len(fetches)}
          /\ pc = "error"
          /\ DOMAIN response = {"kind", "status", "code", "details"}
          /\ response.kind = "error"
          /\ response.status = 500
          /\ response.code = "DATA_UNAVAILABLE"
          /\ DOMAIN response.details = {"table", "reason"}
          /\ response.details.table = fetches[Len(fetches)].table
          /\ response.details.reason \in {"transport", "timeout", "status"}
    /\ Rejected("DATA_UNAVAILABLE") => FailedFetches # {}

\* the second fetch of a request fails after records were accumulated
C11_Witness ==
    /\ Rejected("DATA_UNAVAILABLE")
    /\ Len(fetches) >= 2
    /\ Len(records) > 0
    /\ ~fetches[Len(fetches)].ok


(***************************************************************************)
(* C12: an accepted query without a cursor whose matching rows times its   *)
(* requested scenarios stay below the cap is answered in full: one record  *)
(* per matching store row and requested scenario and no other record,      *)
(* truncated false and next_cursor absent                                  *)
(***************************************************************************)
\* the rows of a level table the query selects: a requested region of that
\* level, a requested metric, a period within the year bounds, a requested
\* data type
MatchingRows(st, r, level) ==
    Matching(st, tables(level), by_level(r, level), metric_ids(r).vals, year_from(r),
             year_to(r), data_type_sel(r))

MatchingCount(st, r) ==
    Cardinality(MatchingRows(st, r, "ITL1")) + Cardinality(MatchingRows(st, r, "ITL2"))
    + Cardinality(MatchingRows(st, r, "ITL3")) + Cardinality(MatchingRows(st, r, "LAD"))

\* C12: below the cap and without a cursor, one record per matching row and
\* scenario, truncated false, no next_cursor
C12_CompleteUnderCap ==
    (/\ Succeeded
     /\ req.cursor = None
     /\ MatchingCount(store, req) * Len(scenario_sel(req)) < MAX_RETURN(req))
    => /\ Len(response.data) = MatchingCount(store, req) * Len(scenario_sel(req))
       /\ \A l \in 1..Len(Levels) : \A row \in MatchingRows(store, req, Levels[l]) :
            \A j \in 1..Len(scenario_sel(req)) :
               Count(response.data,
                     ObservationRecord(row, Levels[l], scenario_sel(req)[j],
                         choose_measure_for_scenario(scenario_sel(req)[j],
                                                     explicit_measure(req)))) = 1
       /\ ~response.meta.truncated
       /\ response.meta.next_cursor = None


(***************************************************************************)
(* C13: every returned record's measure is resolve(its scenario, the first *)
(* value of the measure selection if any), where resolve(s, m) is m when m *)
(* is value, ci_lower or ci_upper, and otherwise ci_upper for upside,      *)
(* ci_lower for downside and value for any other scenario                  *)
(***************************************************************************)
Resolve(s, m) ==
    CASE m \in {"value", "ci_lower", "ci_upper"} -> m
      [] OTHER -> CASE s = "upside" -> "ci_upper"
                    [] s = "downside" -> "ci_lower"
                    [] OTHER -> "value"

\* the first value of the measure selection, "" for none
FirstMeasure(r) ==
    LET ms == {i \in 1..Len(r.query) : r.query[i].code = "measure"}
        sel == r.query[CHOOSE i \in ms : TRUE].selection
    IN  IF ms # {} /\ sel.filter = "item" /\ Len(sel.values) > 0 THEN sel.values[1] ELSE ""

\* C13: the measure of every record is Resolve of its scenario and the first
\* value of the measure selection
C13_MeasureResolution ==
    /\ \A i \in 1..Len(records) :
          records[i].measure = Resolve(records[i].scenario, FirstMeasure(req))
    /\ Succeeded => response.data = records

\* a response to a request whose explicit measure is none of the three: its
\* upside records carry ci_upper and its records of an unknown scenario value
C13_Witness ==
    /\ Succeeded
    /\ FirstMeasure(req) = "growth_yoy"
    /\ \E i \in 1..Len(response.data) :
          /\ response.data[i].scenario = "upside"
          /\ response.data[i].measure = "ci_upper"
    /\ \E i \in 1..Len(response.data) :
          /\ response.data[i].scenario = "stress"
          /\ response.data[i].measure = "value"


(***************************************************************************)
(* C14: the value of a record of a historical row is the row's value,      *)
(* whatever the scenario and measure; the value of a record of any other   *)
(* row is the row's column named by the resolved measure, or the row's     *)
(* value when that column is null                                          *)
(***************************************************************************)
\* the store rows a record can have been made of
OriginRows(st, rec) ==
    {x \in st[tables(rec.level)] :
        /\ x.metric_id = rec.metric_id
        /\ E_CODE_TO_UK(x.region_code) = rec.region_code
        /\ x.period = rec.time_period}

ExpectedValue(row, s, m) ==
    IF row.data_type = "historical" THEN row.value
    ELSE IF row[Resolve(s, m)] = None THEN row.value
    ELSE row[Resolve(s, m)]

\* C14: the value of every record is the ExpectedValue of the row it was
\* made of
C14_ValueExtraction ==
    \A i \in 1..Len(records) :
        /\ OriginRows(store, records[i]) # {}
        /\ \A row \in OriginRows(store, records[i]) :
              records[i].value = ExpectedValue(row, records[i].scenario, FirstMeasure(req))

\* a response with a record of a historical row under a measure other than
\* value, a record of a forecast row whose measure column is null, and a
\* record of a forecast row that carries its measure column
C14_Witness ==
    /\ Succeeded
    /\ \E i \in 1..Len(response.data) :
          /\ response.data[i].data_type = "historical"
          /\ response.data[i].measure = "ci_upper"
          /\ response.data[i].value = 10
    /\ \E i \in 1..Len(response.data) :
          /\ response.data[i].data_type = "forecast"
          /\ response.data[i].measure = "ci_upper"
          /\ response.data[i].metric_id = gva
          /\ response.data[i].value = 11
    /\ \E i \in 1..Len(response.data) :
          /\ response.data[i].data_type = "forecast"
          /\ response.data[i].measure = "ci_lower"
          /\ response.data[i].value = 9


(***************************************************************************)
(* C15: with to_public the translation to the public vocabulary and        *)
(* to_internal the translation of a requested code to the store's: for     *)
(* every internal ITL1 code c (statistical or derived)                     *)
(* to_public(to_internal(to_public(c))) = to_public(c); public and         *)
(* statistical codes correspond one to one (to_public(to_internal(p)) = p  *)
(* for a public p, to_internal(to_public(c)) = c for a statistical c);     *)
(* every code of no ITL1 table passes through both unchanged; and the      *)
(* records of a request carry the public form of the code it asked for     *)
(***************************************************************************)
RoundTrip(c) ==
    /\ c \in ITL1Statistical \cup ITL1Derived =>
          /\ to_public_region_code(c) \in ITL1Public
          /\ to_public_region_code(to_db_code(to_public_region_code(c)))
                = to_public_region_code(c)
    /\ c \in ITL1Statistical =>
          /\ to_db_code(to_public_region_code(c)) = c
          /\ to_db_code(c) = c
    /\ c \in ITL1Public =>
          /\ to_db_code(c) \in ITL1Statistical
          /\ to_public_region_code(to_db_code(c)) = c
          /\ \A p \in ITL1Public : to_db_code(p) = to_db_code(c) => p = c
    /\ c \notin ITL1Statistical \cup ITL1Derived \cup ITL1Public =>
          /\ to_public_region_code(c) = c
          /\ to_db_code(c) = c

\* C15: every requested code makes the round trip, and every record carries
\* the public form of a requested code
C15_RegionCodeRoundTrip ==
    pc \notin {"gate", "validate"} =>
        /\ \A i \in 1..Len(region_codes(req).vals) : RoundTrip(region_codes(req).vals[i])
        /\ \A i \in 1..Len(records) : \E j \in 1..Len(region_codes(req).vals) :
              records[i].region_code
                 = to_public_region_code(to_db_code(region_codes(req).vals[j]))

\* a request for a public ITL1 code is answered with the rows the store
\* keeps under the statistical code, given back under the public code
C15_Witness ==
    /\ Succeeded
    /\ region_codes(req).vals = <<UKC>>
    /\ fetches # <<>>
    /\ Len(response.data) > 0
    /\ \A i \in 1..Len(response.data) : response.data[i].region_code = UKC
    /\ \A row \in MatchingRows(store, req, "ITL1") : row.region_code = E12000001


(***************************************************************************)
(* C16: infer_level gives every internal code the level of its shape       *)
(* family: ITL1 for the prefixes E120, S920, W920 and N920, ITL2 for TL    *)
(* codes of length 4, ITL3 for TL codes of length 5, LAD for every other   *)
(* code; each requested region belongs to one level, and every fetch goes  *)
(* to the table of the level of a requested region                         *)
(***************************************************************************)
ShapeLevel(c) ==
    CASE SubSeq(c, 1, Min(4, Len(c))) \in {<<"E","1","2","0">>, <<"S","9","2","0">>,
                                          <<"W","9","2","0">>, <<"N","9","2","0">>}
            -> "ITL1"
      [] SubSeq(c, 1, Min(2, Len(c))) = <<"T","L">> /\ Len(c) = 4 -> "ITL2"
      [] SubSeq(c, 1, Min(2, Len(c))) = <<"T","L">> /\ Len(c) = 5 -> "ITL3"
      [] OTHER -> "LAD"

\* the level a code belongs to: the derived ITL1 codes TLC..TLN are ITL1
\* regions, every other code has the level of its shape
HierarchyLevel(c) == IF c \in ITL1Derived THEN "ITL1" ELSE ShapeLevel(c)

\* the codes of the store's vocabularies among those a request may name
InternalCodes ==
    ITL1Statistical \cup ITL1Derived \cup {TLC3, TLC31, E06000001}

RequestedDbCodes == {to_db_code(region_codes(req).vals[i]) :
                        i \in 1..Len(region_codes(req).vals)}

\* C16: every requested internal code is classified, and fetched from the
\* table, of its level: the level of the shape rule or, where the two differ,
\* the level the code belongs to
C16_LevelMatchesShape ==
    (fetches # <<>> /\ RequestedDbCodes \subseteq InternalCodes) =>
        /\ \A c \in RequestedDbCodes :
              /\ infer_level(c) \in {ShapeLevel(c), HierarchyLevel(c)}
              /\ Cardinality({l \in 1..Len(Levels) :
                                 c \in SeqToSet(by_level(req, Levels[l]))}) = 1
        /\ \A i \in 1..Len(fetches) :
              \E c \in RequestedDbCodes :
                 fetches[i].table \in {tables(ShapeLevel(c)), tables(HierarchyLevel(c))}


(***************************************************************************)
(* C17: once the cap is reached no further fetch is issued, for no         *)
(* remaining page, metric batch, region batch or level: every fetch asks   *)
(* for min(page size, remaining budget) rows, a number between 1 and the   *)
(* page size                                                               *)
(***************************************************************************)
\* C17: every fetch asks for at least 1 and at most a page of rows
C17_NoFetchAtCap ==
    \A i \in 1..Len(fetches) :
        /\ fetches[i].limit >= 1
        /\ fetches[i].limit <= PageSize


(***************************************************************************)
(* C18: against a store that answers each fetch with at most the number of *)
(* rows asked for or with a failure, the processing of an accepted query   *)
(* ends in a response or a single error, and the fetches of the request    *)
(* never exceed its batches plus the full pages the cap leaves room for    *)
(***************************************************************************)
NumBatches(r) ==
    Len(metric_chunks(r)) *
       (Len(region_chunks(r, "ITL1")) + Len(region_chunks(r, "ITL2"))
        + Len(region_chunks(r, "ITL3")) + Len(region_chunks(r, "LAD")))

FetchBound(r) == NumBatches(r) + (MAX_RETURN(r) \div PageSize)

\* C18: the request ends, in a response or in an error, after no more
\* fetches than FetchBound
C18_Termination ==
    /\ <>(pc \in {"done", "error"})
    /\ [](Len(fetches) <= FetchBound(req))
    /\ []((pc = "error") => (response.kind = "error"))
    /\ []((pc = "done") => (response.kind = "success"))

\* a request answered after as many fetches as its bound allows, one of
\* them a full page that did not reach the cap
C18_Witness ==
    /\ pc = "done"
    /\ response.kind = "success"
    /\ Len(fetches) = FetchBound(req)
    /\ Len(fetches) > NumBatches(req)

=============================================================================
